---- MODULE Spec2Model ----
(***************************************************************************)
(* Model of most-active-cookie: Processor.FindMostActiveCookies driving    *)
(* CSVParser.StreamFile over a line source, with processLogEntry as the    *)
(* entry processor and the tie-aware maximum selection at the end.         *)
(*                                                                         *)
(* Strings are sequences of byte codes, so that trimming, case folding,    *)
(* splitting, slicing and lexical comparison are computed, not assumed.    *)
(***************************************************************************)
EXTENDS Integers, Sequences, FiniteSets, TLC

VARIABLES
    filename,          \* the filename argument ("" or a name)
    targetDate,        \* the targetDate argument, a byte string
    input,             \* the lines the line source can deliver, in order
    openFails,         \* os.Open returns an error
    errAt,             \* 0: the source never fails; k: the read failure is latched by Scan call k
    pc,                \* position of the run
    scanPos,           \* number of lines the scanner has delivered
    scanErr,           \* scanner.Err() is non-nil
    lineNum,           \* StreamFile's lineNum
    entriesProcessed,  \* StreamFile's entriesProcessed
    parsed,            \* number of lines parseLine accepted (ghost)
    calls,             \* number of calls of the entry processor (ghost)
    streamed,          \* StreamFile has been invoked (ghost)
    tallyMade,         \* the tally map has been created (ghost)
    stopped,           \* the processor returned ErrPastTargetDate (ghost)
    counted,           \* lines whose record was tallied, by line number (ghost)
    cookieCounts,      \* the tally map; its DOMAIN is the key set
    remaining,         \* keys the range loop has not visited yet
    maxCount,          \* maxCount of the selection loop
    mostActiveCookies, \* the slice built by the selection loop
    cookies,           \* returned slice: [isNil, list]
    err,               \* returned error: [kind, line, reason]
    run,               \* 1: first run; 2: the run on the appended file
    prev,              \* outcome of the first run, kept for the second
    lastEntry          \* the record parseLine returned last

vars == <<filename, targetDate, input, openFails, errAt, pc, scanPos, scanErr,
          lineNum, entriesProcessed, parsed, calls, streamed, tallyMade, stopped, counted,
          cookieCounts, remaining, maxCount, mostActiveCookies, cookies, err,
          run, prev, lastEntry>>

----------------------------------------------------------------------------
(* Byte strings *)

Ascii ==
    [c \in {" ", ",", "-", ";", "/", "0", "1", "2", "3", "8", "9",
            "A", "B", "C", "T", "c", "e", "i", "k", "a", "m", "o", "p", "s", "t", "x"} |->
        CASE c = " " -> 32 [] c = "," -> 44 [] c = "-" -> 45 [] c = "/" -> 47
          [] c = "0" -> 48 [] c = "1" -> 49 [] c = "2" -> 50 [] c = "3" -> 51
          [] c = "8" -> 56 [] c = "9" -> 57 [] c = ";" -> 59
          [] c = "A" -> 65 [] c = "B" -> 66 [] c = "C" -> 67 [] c = "T" -> 84
          [] c = "a" -> 97 [] c = "c" -> 99 [] c = "e" -> 101 [] c = "i" -> 105 [] c = "k" -> 107
          [] c = "m" -> 109 [] c = "o" -> 111 [] c = "p" -> 112 [] c = "s" -> 115
          [] c = "t" -> 116 [] c = "x" -> 120]

S(t) == [i \in 1..Len(t) |-> Ascii[t[i]]]

\* Go's string comparison: bytewise lexicographic order.
RECURSIVE StrLess(_, _)
StrLess(a, b) ==
    IF b = <<>> THEN FALSE
    ELSE IF a = <<>> THEN TRUE
    ELSE IF Head(a) # Head(b) THEN Head(a) < Head(b)
    ELSE StrLess(Tail(a), Tail(b))

IsSpace(c) == c \in {9, 10, 11, 12, 13, 32}

\* strings.TrimSpace
RECURSIVE TrimLeft(_)
TrimLeft(s) == IF s # <<>> /\ IsSpace(Head(s)) THEN TrimLeft(Tail(s)) ELSE s

RECURSIVE TrimRight(_)
TrimRight(s) ==
    IF s # <<>> /\ IsSpace(s[Len(s)]) THEN TrimRight(SubSeq(s, 1, Len(s) - 1)) ELSE s

TrimSpace(s) == TrimRight(TrimLeft(s))

\* strings.ToLower
ToLower(s) == [i \in 1..Len(s) |-> IF s[i] >= 65 /\ s[i] <= 90 THEN s[i] + 32 ELSE s[i]]

\* strings.Contains(s, "T")
ContainsT(s) == \E i \in 1..Len(s) : s[i] = 84

\* strings.Split(line, ",")
RECURSIVE SplitFrom(_, _, _)
SplitFrom(s, i, cur) ==
    IF i > Len(s) THEN <<cur>>
    ELSE IF s[i] = 44 THEN <<cur>> \o SplitFrom(s, i + 1, <<>>)
    ELSE SplitFrom(s, i + 1, Append(cur, s[i]))

Split(s) == SplitFrom(s, 1, <<>>)

\* The sort left out.
SortStrings_None(s) == s

\* sort.Strings: ascending bytewise order
RECURSIVE InsertSorted(_, _)
InsertSorted(x, s) ==
    IF s = <<>> THEN <<x>>
    ELSE IF StrLess(Head(s), x) THEN <<Head(s)>> \o InsertSorted(x, Tail(s))
    ELSE <<x>> \o s

RECURSIVE SortStrings(_)
SortStrings(s) == IF s = <<>> THEN <<>> ELSE InsertSorted(Head(s), SortStrings(Tail(s)))

----------------------------------------------------------------------------
(* cookie: validateDate, processLogEntry, the selection loop *)

IsDigit(c) == c >= 48 /\ c <= 57

Num(s, i, n) ==
    IF n = 4 THEN (s[i] - 48) * 1000 + (s[i + 1] - 48) * 100 + (s[i + 2] - 48) * 10 + (s[i + 3] - 48)
    ELSE (s[i] - 48) * 10 + (s[i + 1] - 48)

IsLeap(y) == y % 4 = 0 /\ (y % 100 # 0 \/ y % 400 = 0)

DaysIn(m, y) ==
    IF m = 2 THEN (IF IsLeap(y) THEN 29 ELSE 28)
    ELSE IF m \in {4, 6, 9, 11} THEN 30 ELSE 31

\* time.Parse("2006-01-02", s) succeeds: four digits, '-', two digits, '-',
\* two digits, nothing after, month in 1..12, day in 1..DaysIn.
TimeParseOk(s) ==
    /\ Len(s) = 10
    /\ \A i \in {1, 2, 3, 4, 6, 7, 9, 10} : IsDigit(s[i])
    /\ s[5] = 45 /\ s[8] = 45
    /\ Num(s, 6, 2) >= 1 /\ Num(s, 6, 2) <= 12
    /\ Num(s, 9, 2) >= 1 /\ Num(s, 9, 2) <= DaysIn(Num(s, 6, 2), Num(s, 1, 4))

\* validateDate without the calendar check: only the shape of the string.
validateDate_ShapeOnly(d) ==
    /\ Len(d) = 10
    /\ \A i \in {1, 2, 3, 4, 6, 7, 9, 10} : IsDigit(d[i])
    /\ d[5] = 45 /\ d[8] = 45

\* validateDate(targetDate) returns nil
validateDate(d) == d # <<>> /\ TimeParseOk(d)

EmptyCounts == <<>>

Incr(counts, c) ==
    IF c \in DOMAIN counts THEN [counts EXCEPT ![c] = @ + 1]
    ELSE [k \in (DOMAIN counts) \cup {c} |-> IF k = c THEN 1 ELSE counts[k]]

\* processLogEntry with `!=` for `==`: every record not past the target is tallied.
processLogEntry_CountsEarlier(target, counts, entry) ==
    IF Len(entry.Timestamp) < 10
    THEN [err |-> "TimestampTooShort", counts |-> counts]
    ELSE LET entryDate == SubSeq(entry.Timestamp, 1, 10) IN
         IF StrLess(target, entryDate)
         THEN [err |-> "ErrPastTargetDate", counts |-> counts]
         ELSE [err |-> "nil", counts |-> Incr(counts, entry.Cookie)]

\* The closure processLogEntry(targetDate, cookieCounts) applied to entry:
\* the error it returns and the tally it leaves.
processLogEntry(target, counts, entry) ==
    IF Len(entry.Timestamp) < 10
    THEN [err |-> "TimestampTooShort", counts |-> counts]
    ELSE LET entryDate == SubSeq(entry.Timestamp, 1, 10) IN
         IF StrLess(target, entryDate)
         THEN [err |-> "ErrPastTargetDate", counts |-> counts]
         ELSE IF entryDate = target
         THEN [err |-> "nil", counts |-> Incr(counts, entry.Cookie)]
         ELSE [err |-> "nil", counts |-> counts]

\* The selection step with `>=` for `>`: a tie replaces the list.
SelectStep_DropsTies(cookie, count, max, list) ==
    IF count >= max THEN [maxCount |-> count, list |-> <<cookie>>]
    ELSE [maxCount |-> max, list |-> list]

\* One iteration of `for cookie, count := range cookieCounts`.
SelectStep(cookie, count, max, list) ==
    IF count > max THEN [maxCount |-> count, list |-> <<cookie>>]
    ELSE IF count = max THEN [maxCount |-> max, list |-> Append(list, cookie)]
    ELSE [maxCount |-> max, list |-> list]

----------------------------------------------------------------------------
(* parser: parseLine, isValidHeader *)

expectedColumns == 2

HeaderText == S(<<"c", "o", "o", "k", "i", "e", ",", "t", "i", "m", "e", "s", "t", "a", "m", "p">>)

\* isValidHeader without the case folding.
isValidHeader_CaseSensitive(header) == TrimSpace(header) = HeaderText

isValidHeader(header) == TrimSpace(ToLower(header)) = HeaderText

NoEntry == [Cookie |-> <<>>, Timestamp |-> <<>>]

\* parseLine with `&&` for `||` in the timestamp check.
parseLine_LaxTimestamp(line) ==
    LET parts == Split(line) IN
    IF Len(parts) # expectedColumns
    THEN [ok |-> FALSE, reason |-> "columns", entry |-> NoEntry]
    ELSE LET cookieID == TrimSpace(parts[1])
             timestampStr == TrimSpace(parts[2]) IN
         IF cookieID = <<>>
         THEN [ok |-> FALSE, reason |-> "empty cookie ID", entry |-> NoEntry]
         ELSE IF timestampStr = <<>>
         THEN [ok |-> FALSE, reason |-> "empty timestamp", entry |-> NoEntry]
         ELSE IF Len(timestampStr) < 10 /\ ~ContainsT(timestampStr)
         THEN [ok |-> FALSE, reason |-> "invalid timestamp format", entry |-> NoEntry]
         ELSE [ok |-> TRUE, reason |-> "", entry |-> [Cookie |-> cookieID, Timestamp |-> timestampStr]]

parseLine(line) ==
    LET parts == Split(line) IN
    IF Len(parts) # expectedColumns
    THEN [ok |-> FALSE, reason |-> "columns", entry |-> NoEntry]
    ELSE LET cookieID == TrimSpace(parts[1])
             timestampStr == TrimSpace(parts[2]) IN
         IF cookieID = <<>>
         THEN [ok |-> FALSE, reason |-> "empty cookie ID", entry |-> NoEntry]
         ELSE IF timestampStr = <<>>
         THEN [ok |-> FALSE, reason |-> "empty timestamp", entry |-> NoEntry]
         ELSE IF Len(timestampStr) < 10 \/ ~ContainsT(timestampStr)
         THEN [ok |-> FALSE, reason |-> "invalid timestamp format", entry |-> NoEntry]
         ELSE [ok |-> TRUE, reason |-> "", entry |-> [Cookie |-> cookieID, Timestamp |-> timestampStr]]

----------------------------------------------------------------------------
(* The inputs of the model *)

MaxData == 3
MaxBase == 2
MaxAppend == 1

D08 == S(<<"2", "0", "1", "8", "-", "1", "2", "-", "0", "8">>)
D09 == S(<<"2", "0", "1", "8", "-", "1", "2", "-", "0", "9">>)
D10 == S(<<"2", "0", "1", "8", "-", "1", "2", "-", "1", "0">>)

LineA09 == S(<<"A", ",">>) \o D09 \o S(<<"T", "1">>)
LineB09 == S(<<" ", "B", " ", ",", " ">>) \o D09 \o S(<<"T", "2", "3", "-", "0", "3", " ">>)
LineAB09 == S(<<"A", "B", ",">>) \o D09 \o S(<<"T">>)
LineB08 == S(<<"B", ",">>) \o D08 \o S(<<"T", "2">>)
LineA10 == S(<<"A", ",">>) \o D10 \o S(<<"T", "0">>)
LineBlank == S(<<" ", " ">>)
LineNoT == S(<<"A", ",">>) \o D09
LineShortT == S(<<"B", ",", "2", "0", "1", "8", "T">>)

DataLines == {LineA09, LineB09, LineAB09, LineB08, LineA10, LineBlank, LineNoT, LineShortT}

HeaderCaps == S(<<" ", "C", "o", "o", "k", "i", "e", ",", "T", "i", "m", "e", "s", "t", "a", "m", "p", " ">>)
HeaderBad == S(<<"c", "o", "o", "k", "i", "e", ";", "t", "i", "m", "e", "s", "t", "a", "m", "p">>)

OtherFirstLines == {HeaderCaps, HeaderBad, LineA09, LineBlank}

SeqsUpTo(set, n) == UNION {[1..k -> set] : k \in 0..n}

\* The header followed by up to MaxData lines; every other first line, and the
\* file of no line at all, with at most one line after it.
Inputs ==
    {<<HeaderText>> \o d : d \in SeqsUpTo(DataLines, MaxData)}
        \cup {<<h>> \o d : h \in OtherFirstLines, d \in SeqsUpTo(DataLines, 1)}
        \cup {<<>>}

BadDates == {<<>>,
             S(<<"2", "0", "1", "8", "-", "1", "3", "-", "0", "9">>),
             S(<<"2", "0", "1", "9", "-", "0", "2", "-", "2", "9">>),
             S(<<"2", "0", "1", "8", "-", "1", "2", "-", "9">>),
             S(<<"2", "0", "1", "8", "/", "1", "2", "/", "0", "9">>)}

NoError == [kind |-> "nil", line |-> 0, reason |-> ""]
NilSlice == [isNil |-> TRUE, list |-> <<>>]
EmptySlice == [isNil |-> FALSE, list |-> <<>>]
NoOutcome == [cookies |-> NilSlice, err |-> NoError, lines |-> 0]

RunStart ==
    /\ pc = "Start"
    /\ scanPos = 0 /\ scanErr = FALSE /\ lineNum = 0 /\ entriesProcessed = 0
    /\ parsed = 0 /\ calls = 0 /\ streamed = FALSE /\ tallyMade = FALSE
    /\ stopped = FALSE /\ counted = {}
    /\ cookieCounts = EmptyCounts /\ remaining = {} /\ maxCount = 0
    /\ mostActiveCookies = NilSlice
    /\ cookies = NilSlice /\ err = NoError
    /\ lastEntry = NoEntry

Init ==
    /\ \/ /\ filename = "log.csv" /\ openFails = FALSE
          /\ targetDate = D09
          /\ input \in Inputs
          /\ errAt \in 0..(Len(input) + 1)
       \/ /\ filename = "log.csv" /\ openFails = FALSE
          /\ targetDate \in BadDates
          /\ input \in {i \in Inputs : Len(i) <= 2}
          /\ errAt = 0
       \/ /\ filename \in {"", "log.csv"} /\ openFails = (filename # "")
          /\ targetDate \in {D09} \cup BadDates
          /\ input = <<>>
          /\ errAt = 0
    /\ run = 1 /\ prev = NoOutcome
    /\ RunStart

----------------------------------------------------------------------------
(* FindMostActiveCookies *)

\* A failing return that hands back what was tallied so far.
Fail_KeepsPartial(slice, kind, line, reason) ==
    /\ pc' = "Failure"
    /\ cookies' = IF DOMAIN cookieCounts = {} THEN slice
                  ELSE [isNil |-> FALSE, list |-> <<CHOOSE c \in DOMAIN cookieCounts : TRUE>>]
    /\ err' = [kind |-> kind, line |-> line, reason |-> reason]

\* Every `return ..., err` of a run: the slice and the error handed back.
Fail(slice, kind, line, reason) ==
    /\ pc' = "Failure"
    /\ cookies' = slice
    /\ err' = [kind |-> kind, line |-> line, reason |-> reason]

\* part_002:34-36
CheckFilename ==
    /\ pc = "Start"
    /\ IF filename = ""
       THEN Fail(NilSlice, "FilenameError", 0, "")
       ELSE pc' = "ValidatingDate" /\ UNCHANGED <<cookies, err>>
    /\ UNCHANGED <<filename, targetDate, input, openFails, errAt, scanPos, scanErr,
                   lineNum, entriesProcessed, parsed, calls, streamed, tallyMade,
                   stopped, counted, cookieCounts, remaining, maxCount,
                   mostActiveCookies, run, prev, lastEntry>>

\* part_002:37-42
ValidateDate ==
    /\ pc = "ValidatingDate"
    /\ IF ~validateDate(targetDate)
       THEN Fail(EmptySlice, "InvalidDateError", 0, "") /\ UNCHANGED <<tallyMade, cookieCounts>>
       ELSE /\ pc' = "ReadingHeader"
            /\ tallyMade' = TRUE
            /\ cookieCounts' = EmptyCounts
            /\ UNCHANGED <<cookies, err>>
    /\ UNCHANGED <<filename, targetDate, input, openFails, errAt, scanPos, scanErr,
                   lineNum, entriesProcessed, parsed, calls, streamed,
                   stopped, counted, remaining, maxCount,
                   mostActiveCookies, run, prev, lastEntry>>

----------------------------------------------------------------------------
(* CSVParser.StreamFile, called at part_002:43; its error returns pass      *)
(* through part_002:44-46, which hands back a nil slice.                    *)

\* bufio.Scanner.Scan: a line is delivered while one is left; a read failure
\* of the source is latched in the scanner from Scan call errAt on.
ScanDelivers == scanPos < Len(input)
ScanLatches == scanErr \/ (errAt # 0 /\ scanPos + 1 >= errAt)

\* lineNum++ moved below the blank-line `continue`.
CountLine_SkipsBlank(n, line) == IF TrimSpace(line) = <<>> THEN n ELSE n + 1

\* csv.go:36 and csv.go:44: lineNum++ for every line the scanner delivers.
CountLine(n, line) == n + 1

\* csv.go:24-41
ReadHeader ==
    /\ pc = "ReadingHeader"
    /\ streamed' = TRUE
    /\ IF openFails
       THEN /\ Fail(NilSlice, "OpenError", 0, "")
            /\ UNCHANGED <<scanPos, scanErr, lineNum>>
       ELSE /\ scanErr' = ScanLatches
            /\ IF ScanDelivers
               THEN /\ scanPos' = scanPos + 1
                    /\ lineNum' = CountLine(lineNum, input[scanPos + 1])
                    /\ IF ~isValidHeader(input[scanPos + 1])
                       THEN Fail(NilSlice, "HeaderError", CountLine(lineNum, input[scanPos + 1]), "")
                       ELSE pc' = "ConsumingRecords" /\ UNCHANGED <<cookies, err>>
               ELSE /\ pc' = "ConsumingRecords"
                    /\ UNCHANGED <<scanPos, lineNum, cookies, err>>
    /\ UNCHANGED <<filename, targetDate, input, openFails, errAt,
                   entriesProcessed, parsed, calls, tallyMade,
                   stopped, counted, cookieCounts, remaining, maxCount,
                   mostActiveCookies, run, prev, lastEntry>>

\* The loop without the early stop: a past-target record is counted and the scan goes on.
AfterProcessor_NoBreak(perr) ==
    IF perr \in {"nil", "ErrPastTargetDate"} THEN "count" ELSE "return"

\* csv.go:56-63: what the loop does with the processor's return value.
AfterProcessor(perr) ==
    IF perr = "ErrPastTargetDate" THEN "break"
    ELSE IF perr # "nil" THEN "return"
    ELSE "count"

\* StreamFile without the scanner.Err() check of csv.go:66-68.
StreamReturn_IgnoresErr(latched, n) ==
    IF n = 0 THEN "EmptyInputError" ELSE "nil"

\* The loop without the `continue` of csv.go:47-49.
SkipLine_Never(line) == FALSE

\* csv.go:47-49: a line that is empty after the trim is skipped.
SkipLine(line) == line = <<>>

\* StreamFile with the checks of csv.go:66-68 and csv.go:70-72 in the other order.
StreamReturn_CountFirst(latched, n) ==
    IF n = 0 THEN "EmptyInputError"
    ELSE IF latched THEN "IOError"
    ELSE "nil"

\* StreamFile without the check of csv.go:70-72.
StreamReturn_EmptyOk(latched, n) ==
    IF latched THEN "IOError" ELSE "nil"

\* csv.go:66-75: what StreamFile returns once the loop is left, from the
\* scanner's error and the number of entries processed.
StreamReturn(latched, n) ==
    IF latched THEN "IOError"
    ELSE IF n = 0 THEN "EmptyInputError"
    ELSE "nil"

\* csv.go:66-75 and part_002:44-46: the loop is left by `break` or by Scan
\* returning false. StreamFile never returns an error that wraps
\* ErrPastTargetDate, so every error it returns fails the run.
LeaveLoop(latched) ==
    IF StreamReturn(latched, entriesProcessed) # "nil"
    THEN Fail(NilSlice, StreamReturn(latched, entriesProcessed), 0, "")
    ELSE pc' = "Finalizing" /\ UNCHANGED <<cookies, err>>

\* csv.go:43-75, one iteration of the scan loop; the iteration that leaves
\* the loop goes on to StreamFile's return.
ConsumeLine ==
    /\ pc = "ConsumingRecords"
    /\ scanErr' = ScanLatches
    /\ IF ~ScanDelivers
       THEN /\ LeaveLoop(ScanLatches)
            /\ UNCHANGED <<scanPos, lineNum, entriesProcessed, parsed, calls, stopped,
                           counted, cookieCounts, lastEntry>>
       ELSE LET line == TrimSpace(input[scanPos + 1])
                n == CountLine(lineNum, input[scanPos + 1])
                r == parseLine(line)
                p == processLogEntry(targetDate, cookieCounts, r.entry)
                todo == AfterProcessor(p.err) IN
            /\ scanPos' = scanPos + 1
            /\ lineNum' = n
            /\ IF SkipLine(line)
               THEN /\ pc' = "ConsumingRecords"
                    /\ UNCHANGED <<entriesProcessed, parsed, calls, stopped,
                                   counted, cookieCounts, cookies, err, lastEntry>>
               ELSE IF ~r.ok
               THEN /\ Fail(NilSlice, "FormatError", n, r.reason)
                    /\ lastEntry' = r.entry
                    /\ UNCHANGED <<entriesProcessed, parsed, calls, stopped,
                                   counted, cookieCounts>>
               ELSE /\ parsed' = parsed + 1
                    /\ lastEntry' = r.entry
                    /\ calls' = calls + 1
                    /\ cookieCounts' = p.counts
                    /\ counted' = IF p.counts # cookieCounts THEN counted \cup {n} ELSE counted
                    /\ stopped' = (p.err = "ErrPastTargetDate")
                    /\ IF todo = "break"
                       THEN /\ LeaveLoop(ScanLatches)
                            /\ UNCHANGED entriesProcessed
                       ELSE IF todo = "return"
                       THEN /\ Fail(NilSlice, "ProcessingError", n, p.err)
                            /\ UNCHANGED entriesProcessed
                       ELSE /\ pc' = "ConsumingRecords"
                            /\ entriesProcessed' = entriesProcessed + 1
                            /\ UNCHANGED <<cookies, err>>
    /\ UNCHANGED <<filename, targetDate, input, openFails, errAt, streamed, tallyMade,
                   remaining, maxCount, mostActiveCookies, run, prev>>

\* part_002:48-52: StreamFile has returned without an error.
StartSelection ==
    /\ pc = "Finalizing"
    /\ IF DOMAIN cookieCounts = {}
       THEN /\ pc' = "Success"
            /\ cookies' = EmptySlice
            /\ UNCHANGED <<err, remaining>>
       ELSE /\ pc' = "Selecting"
            /\ remaining' = DOMAIN cookieCounts
            /\ UNCHANGED <<cookies, err>>
    /\ UNCHANGED <<filename, targetDate, input, openFails, errAt, scanPos, scanErr,
                   lineNum, entriesProcessed, parsed, calls, streamed, tallyMade,
                   stopped, counted, cookieCounts, maxCount,
                   mostActiveCookies, run, prev, lastEntry>>

\* part_002:52-62, one iteration of the range loop; Go leaves the order of
\* a map's iteration unspecified.
RangeStep ==
    /\ pc = "Selecting"
    /\ \E cookie \in remaining :
         LET st == SelectStep(cookie, cookieCounts[cookie], maxCount, mostActiveCookies.list) IN
         /\ maxCount' = st.maxCount
         /\ mostActiveCookies' = [isNil |-> FALSE, list |-> st.list]
         /\ remaining' = remaining \ {cookie}
    /\ UNCHANGED <<filename, targetDate, input, openFails, errAt, pc, scanPos, scanErr,
                   lineNum, entriesProcessed, parsed, calls, streamed, tallyMade,
                   stopped, counted, cookieCounts, cookies, err, run, prev, lastEntry>>

\* part_002:64-66
SortAndReturn ==
    /\ pc = "Selecting"
    /\ remaining = {}
    /\ pc' = "Success"
    /\ cookies' = [isNil |-> mostActiveCookies.isNil, list |-> SortStrings(mostActiveCookies.list)]
    /\ UNCHANGED <<filename, targetDate, input, openFails, errAt, scanPos, scanErr,
                   lineNum, entriesProcessed, parsed, calls, streamed, tallyMade,
                   stopped, counted, cookieCounts, remaining, maxCount,
                   mostActiveCookies, err, run, prev, lastEntry>>

Done == pc \in {"Success", "Failure"}

Next ==
    \/ CheckFilename
    \/ ValidateDate
    \/ ReadHeader
    \/ ConsumeLine
    \/ StartSelection
    \/ RangeStep
    \/ SortAndReturn

Spec == Init /\ [][Next]_vars

----------------------------------------------------------------------------
(* The program run again on the same file after rows were appended to it *)

AppendAndRerun ==
    /\ Done
    /\ run = 1
    /\ \E extra \in SeqsUpTo(DataLines, MaxAppend) \ {<<>>} : input' = input \o extra
    /\ prev' = [cookies |-> cookies, err |-> err, lines |-> Len(input)]
    /\ run' = 2
    /\ pc' = "Start"
    /\ scanPos' = 0 /\ scanErr' = FALSE /\ lineNum' = 0 /\ entriesProcessed' = 0
    /\ parsed' = 0 /\ calls' = 0 /\ streamed' = FALSE /\ tallyMade' = FALSE
    /\ stopped' = FALSE /\ counted' = {}
    /\ cookieCounts' = EmptyCounts /\ remaining' = {} /\ maxCount' = 0
    /\ mostActiveCookies' = NilSlice
    /\ cookies' = NilSlice /\ err' = NoError
    /\ lastEntry' = NoEntry
    /\ UNCHANGED <<filename, targetDate, openFails, errAt>>

InitAppend == Init /\ Len(input) <= MaxBase + 1

NextAppend == Next \/ AppendAndRerun

SpecAppend == InitAppend /\ [][NextAppend]_vars

----------------------------------------------------------------------------
(* The program run a second time on the same file and target date *)

RerunSame ==
    /\ Done
    /\ run = 1
    /\ prev' = [cookies |-> cookies, err |-> err, lines |-> Len(input)]
    /\ run' = 2
    /\ pc' = "Start"
    /\ scanPos' = 0 /\ scanErr' = FALSE /\ lineNum' = 0 /\ entriesProcessed' = 0
    /\ parsed' = 0 /\ calls' = 0 /\ streamed' = FALSE /\ tallyMade' = FALSE
    /\ stopped' = FALSE /\ counted' = {}
    /\ cookieCounts' = EmptyCounts /\ remaining' = {} /\ maxCount' = 0
    /\ mostActiveCookies' = NilSlice
    /\ cookies' = NilSlice /\ err' = NoError
    /\ lastEntry' = NoEntry
    /\ UNCHANGED <<filename, targetDate, input, openFails, errAt>>

NextRerun == Next \/ RerunSame

SpecRerun == Init /\ [][NextRerun]_vars

----------------------------------------------------------------------------
(* The program run again on the same file after blank lines were put in or  *)
(* taken out below its first line; the line source does not fail.           *)

MaxEdits == 2

LineEmpty == <<>>

\* the files one blank line more or one blank line less than s
OneBlankEdit(s) ==
    {SubSeq(s, 1, p) \o <<b>> \o SubSeq(s, p + 1, Len(s)) :
        p \in 1..Len(s), b \in {LineBlank, LineEmpty}}
    \cup {SubSeq(s, 1, p - 1) \o SubSeq(s, p + 1, Len(s)) :
        p \in {q \in 2..Len(s) : TrimSpace(s[q]) = <<>>}}

RECURSIVE BlankEdits(_, _)
BlankEdits(s, n) ==
    IF n = 0 THEN {s}
    ELSE {s} \cup UNION {BlankEdits(t, n - 1) : t \in OneBlankEdit(s)}

EditBlanksAndRerun ==
    /\ Done
    /\ run = 1
    /\ \E edited \in BlankEdits(input, MaxEdits) \ {input} : input' = edited
    /\ prev' = [cookies |-> cookies, err |-> err, lines |-> Len(input)]
    /\ run' = 2
    /\ pc' = "Start"
    /\ scanPos' = 0 /\ scanErr' = FALSE /\ lineNum' = 0 /\ entriesProcessed' = 0
    /\ parsed' = 0 /\ calls' = 0 /\ streamed' = FALSE /\ tallyMade' = FALSE
    /\ stopped' = FALSE /\ counted' = {}
    /\ cookieCounts' = EmptyCounts /\ remaining' = {} /\ maxCount' = 0
    /\ mostActiveCookies' = NilSlice
    /\ cookies' = NilSlice /\ err' = NoError
    /\ lastEntry' = NoEntry
    /\ UNCHANGED <<filename, targetDate, openFails, errAt>>

InitBlanks == Init /\ errAt = 0 /\ Len(input) <= MaxBase + 1

NextBlanks == Next \/ EditBlanksAndRerun

SpecBlanks == InitBlanks /\ [][NextBlanks]_vars

----------------------------------------------------------------------------
(* parseLine called on one line, as TestCSVParser_ParseLine calls it *)

CookieFields == {<<>>, S(<<" ">>), S(<<"A">>), S(<<" ", "A", "B", " ">>)}

StampFields ==
    {<<>>, S(<<" ">>), S(<<"T">>),
     D09,
     D09 \o S(<<"T">>),
     S(<<" ">>) \o D09 \o S(<<"T", "1", " ">>),
     S(<<"2", "0", "1", "8", "-", "1", "2", "-", "0", " ">>),
     S(<<"T", "2", "0", "1", "8", "1", "2", "0", "9">>),
     S(<<"T", "2", "0", "1", "8", "1", "2", "0", "9", "0">>),
     S(<<"2", "0", "1", "8", "T", "1", "2", "-", "0", "9", "0">>)}

ParseLines ==
    CookieFields
        \cup {c \o S(<<",">>) \o t : c \in CookieFields, t \in StampFields}
        \cup {c \o S(<<",">>) \o t \o S(<<",", "x">>) : c \in CookieFields, t \in StampFields}

InitParse ==
    /\ filename = "log.csv" /\ openFails = FALSE /\ targetDate = D09 /\ errAt = 0
    /\ \E line \in ParseLines : input = <<line>>
    /\ run = 1 /\ prev = NoOutcome
    /\ pc = "ParseLine"
    /\ scanPos = 0 /\ scanErr = FALSE /\ lineNum = 0 /\ entriesProcessed = 0
    /\ parsed = 0 /\ calls = 0 /\ streamed = FALSE /\ tallyMade = FALSE
    /\ stopped = FALSE /\ counted = {}
    /\ cookieCounts = EmptyCounts /\ remaining = {} /\ maxCount = 0
    /\ mostActiveCookies = NilSlice
    /\ cookies = NilSlice /\ err = NoError
    /\ lastEntry = NoEntry

\* csv.go:78-103: entry, err := parser.parseLine(line)
ParseLineCall ==
    /\ pc = "ParseLine"
    /\ LET r == parseLine(input[1]) IN
         /\ lastEntry' = r.entry
         /\ err' = IF r.ok THEN NoError
                   ELSE [kind |-> "FormatError", line |-> 0, reason |-> r.reason]
    /\ pc' = "Parsed"
    /\ UNCHANGED <<filename, targetDate, input, openFails, errAt, scanPos, scanErr,
                   lineNum, entriesProcessed, parsed, calls, streamed, tallyMade,
                   stopped, counted, cookieCounts, remaining, maxCount,
                   mostActiveCookies, cookies, run, prev>>

SpecParse == InitParse /\ [][ParseLineCall]_vars

----------------------------------------------------------------------------
(* Reference notions the properties are stated with, read off the input *)

ValidRun == filename # "" /\ ~openFails /\ validateDate(targetDate)

DataIdx == 2..Len(input)
IsBlank(i) == TrimSpace(input[i]) = <<>>
Rec(i) == parseLine(TrimSpace(input[i]))
DatePrefix(i) == SubSeq(Rec(i).entry.Timestamp, 1, 10)
Malformed(i) == ~IsBlank(i) /\ ~Rec(i).ok
PastTarget(i) == ~IsBlank(i) /\ Rec(i).ok /\ StrLess(targetDate, DatePrefix(i))
OnTarget(i) == ~IsBlank(i) /\ Rec(i).ok /\ DatePrefix(i) = targetDate

\* a valid header, at least one data record, every line a well-formed record
WellFormedInput ==
    /\ Len(input) >= 2
    /\ isValidHeader(input[1])
    /\ \A i \in DataIdx : ~IsBlank(i) /\ Rec(i).ok

SortedByDate == \A i, j \in DataIdx : i < j => ~StrLess(DatePrefix(j), DatePrefix(i))

MatchCount(c) == Cardinality({i \in DataIdx : OnTarget(i) /\ Rec(i).entry.Cookie = c})
InputCookies == {Rec(i).entry.Cookie : i \in {j \in DataIdx : OnTarget(j)}}
Winners == {c \in InputCookies : \A d \in InputCookies : MatchCount(d) <= MatchCount(c)}

Range(list) == {list[i] : i \in 1..Len(list)}
IsAscending(list) == \A i \in 1..(Len(list) - 1) : StrLess(list[i], list[i + 1])

TallyMax == {c \in DOMAIN cookieCounts : \A d \in DOMAIN cookieCounts : cookieCounts[d] <= cookieCounts[c]}

----------------------------------------------------------------------------
(* Properties *)

\* C1: for a valid target date and an input with a valid header, at least one
\* data record, only well-formed lines and records in non-decreasing date
\* order, the run succeeds with exactly the ascending list of the cookies
\* that have the most records on the target date (a function of the bag of
\* records, hence independent of the order of rows of the same date).
C1_SortedInputResult ==
    (Done /\ ValidRun /\ errAt = 0 /\ WellFormedInput /\ SortedByDate)
        => /\ pc = "Success"
           /\ err = NoError
           /\ IsAscending(cookies.list)
           /\ Range(cookies.list) = Winners

\* C2: for a valid target date and a well-formed input with at least one
\* record, if no record is on the target date the run returns the empty
\* sequence and no error.
C2_EmptyResultLaw ==
    (Done /\ ValidRun /\ errAt = 0 /\ WellFormedInput /\ \A i \in DataIdx : ~OnTarget(i))
        => /\ pc = "Success"
           /\ err = NoError
           /\ cookies.list = <<>>

\* C3: whenever consumption ended because the processor returned
\* ErrPastTargetDate (and the source never failed), the run ends in Success
\* with the result computed from the tally built so far.
C3_EarlyStopIsNoError ==
    (Done /\ stopped /\ errAt = 0)
        => /\ pc = "Success"
           /\ err = NoError
           /\ Range(cookies.list) = TallyMax

\* the file of the first run holds a data row dated after the target
BaseHasPastRow ==
    \E i \in 2..prev.lines : i <= Len(input) /\ PastTarget(i)

\* C4: appending rows after the first data row whose date prefix exceeds the
\* target date leaves the outcome of the run unchanged: the run on the
\* appended file returns the same list and the same error as the run before.
C4_EarlyStopLaw ==
    (run = 2 /\ Done /\ BaseHasPastRow)
        => /\ cookies = prev.cookies
           /\ err = prev.err

\* a target-date row appended behind a past-target row, after a run that
\* returned a winner
C4_Witness ==
    /\ run = 2 /\ Done /\ BaseHasPastRow
    /\ \E i \in (prev.lines + 1)..Len(input) : OnTarget(i)
    /\ pc = "Success" /\ cookies.list # <<>>

\* C5: on every successful run whose tally is non-empty, whatever order the
\* tally map was iterated in, the returned sequence holds exactly the cookies
\* whose tally is the maximum, in strictly ascending order (so without
\* duplicates).
C5_TieLaw ==
    (pc = "Success" /\ DOMAIN cookieCounts # {})
        => /\ Range(cookies.list) = TallyMax
           /\ IsAscending(cookies.list)
           /\ Len(cookies.list) = Cardinality(TallyMax)

\* a tie that the range loop met out of order
C5_Witness ==
    /\ pc = "Success"
    /\ Len(cookies.list) >= 2
    /\ mostActiveCookies.list # cookies.list

\* C6: a target date that is empty or not a calendar-valid YYYY-MM-DD string
\* (the empty string, a month 13, a 29 February of a common year, a one-digit
\* day, slashes for dashes) makes the run on a named file fail with
\* InvalidDateError before any input is read: StreamFile is never invoked, no
\* line is consumed, the processor is never called and the tally is never
\* created or changed.
C6_InvalidDateFailsFirst ==
    targetDate \in BadDates
        => /\ ~streamed /\ scanPos = 0 /\ lineNum = 0 /\ calls = 0
           /\ ~tallyMade /\ cookieCounts = EmptyCounts
           /\ pc \in {"Start", "ValidatingDate", "Failure"}
           /\ (Done /\ filename # "")
                 => (err.kind = "InvalidDateError" /\ cookies.list = <<>>)

\* a date of the right shape that is no calendar date, rejected with lines waiting
C6_Witness ==
    /\ pc = "Failure" /\ err.kind = "InvalidDateError"
    /\ targetDate \in BadDates /\ Len(targetDate) = 10 /\ targetDate[5] = 45
    /\ Len(input) >= 2

\* line i is the first data line that ends consumption: malformed, or past the target
FirstStop(i) ==
    /\ i \in DataIdx
    /\ Malformed(i) \/ PastTarget(i)
    /\ \A j \in 2..(i - 1) : ~Malformed(j) /\ ~PastTarget(j)

\* C7: if a non-blank data line read before consumption ends fails line
\* parsing, the run aborts with a FormatError carrying that line's 1-based
\* physical number (the header is line 1, skipped blank lines count),
\* whatever was tallied before it.
C7_FormatErrorLine ==
    /\ (Done /\ ValidRun /\ Len(input) >= 1 /\ isValidHeader(input[1]))
          => \A i \in DataIdx :
                (FirstStop(i) /\ Malformed(i))
                    => (pc = "Failure" /\ err.kind = "FormatError" /\ err.line = i)
    /\ err.kind = "FormatError"
          => (err.line \in DataIdx /\ FirstStop(err.line) /\ Malformed(err.line))

\* a malformed line behind a blank line and a tallied record
C7_Witness ==
    /\ pc = "Failure" /\ err.kind = "FormatError"
    /\ \E j \in 2..(err.line - 1) : IsBlank(j)
    /\ DOMAIN cookieCounts # {}

\* C8: whenever the run ends in a Failure the returned list is nil or empty,
\* even if target-date records had been tallied; a non-empty list is only
\* ever returned together with a nil error.
C8_NoPartialSuccess ==
    /\ pc = "Failure" => (cookies.list = <<>> /\ err # NoError)
    /\ cookies.list # <<>> => (pc = "Success" /\ err = NoError)

\* a failure after a target-date record was tallied
C8_Witness ==
    /\ pc = "Failure"
    /\ DOMAIN cookieCounts # {}
    /\ err.kind \in {"FormatError", "IOError"}

\* the scan loop was left by EOF or by the early stop, not by a return
ConsumptionEnded == pc \in {"Selecting", "Success"} \/ err.kind \in {"IOError", "EmptyInputError"}

\* C9: when consumption ends by EOF or by early stop and no data record was
\* ever successfully parsed, the run fails with EmptyInputError; when at least
\* one data record was successfully parsed it never fails with EmptyInputError.
C9_EmptyInputLaw ==
    /\ (Done /\ ConsumptionEnded /\ ~scanErr /\ parsed = 0) => err.kind = "EmptyInputError"
    /\ parsed >= 1 => err.kind # "EmptyInputError"

\* the header rule as stated: trim, then fold case, then compare
HeaderMatches(line) == ToLower(TrimSpace(line)) = HeaderText

\* C10: the first line is accepted as header iff, trimmed and lower-cased, it
\* equals "cookie,timestamp"; any other first line fails the run with
\* HeaderError before any record is processed: the processor is never called,
\* no data line is read and the tally stays empty.
C10_HeaderLaw ==
    (streamed /\ ~openFails /\ Len(input) >= 1)
        => IF HeaderMatches(input[1])
           THEN err.kind # "HeaderError" /\ pc # "ReadingHeader"
           ELSE /\ pc = "Failure" /\ err.kind = "HeaderError" /\ err.line = 1
                /\ calls = 0 /\ parsed = 0 /\ scanPos = 1
                /\ cookieCounts = EmptyCounts /\ cookies.list = <<>>

\* a header in other case and with surrounding blanks, accepted, and its
\* records consumed
C10_Witness ==
    /\ Len(input) >= 2 /\ input[1] # HeaderText /\ HeaderMatches(input[1])
    /\ pc = "Success" /\ cookies.list # <<>>

\* the fields of a line as the claim reads them: what lies before and after
\* its one comma, surrounding white space removed
Commas(line) == {i \in 1..Len(line) : line[i] = 44}
FieldBefore(line) == TrimSpace(SubSeq(line, 1, (CHOOSE i \in Commas(line) : TRUE) - 1))
FieldAfter(line) == TrimSpace(SubSeq(line, (CHOOSE i \in Commas(line) : TRUE) + 1, Len(line)))
HasT(t) == \E i \in DOMAIN t : t[i] = 84
HasSeparatorT(t) == Len(t) >= 11 /\ t[11] = 84

\* the lines parseLine rejects, with `okT` as the test of the 'T'
Rejected(line, okT(_)) ==
    \/ Cardinality(Commas(line)) # 1
    \/ FieldBefore(line) = <<>>
    \/ FieldAfter(line) = <<>>
    \/ Len(FieldAfter(line)) < 10
    \/ ~okT(FieldAfter(line))

\* C11 as stated: parseLine fails with FormatError if the line has not exactly
\* two comma-separated fields, if the trimmed cookie or the trimmed timestamp
\* is empty, if the trimmed timestamp is shorter than 10 characters or has no
\* 'T' separating date (its first 10 characters) and time; every other line
\* yields the record of the two trimmed fields.
C11_ParseLineAsStated ==
    pc = "Parsed"
        => IF Rejected(input[1], HasSeparatorT)
           THEN err.kind = "FormatError"
           ELSE /\ err = NoError
                /\ lastEntry = [Cookie |-> FieldBefore(input[1]), Timestamp |-> FieldAfter(input[1])]

\* C11 amended: as above, with the test of the 'T' being that the trimmed
\* timestamp contains a 'T' anywhere.
C11_ParseLine ==
    pc = "Parsed"
        => IF Rejected(input[1], HasT)
           THEN err.kind = "FormatError" /\ lastEntry = NoEntry
           ELSE /\ err = NoError
                /\ lastEntry = [Cookie |-> FieldBefore(input[1]), Timestamp |-> FieldAfter(input[1])]

\* a line accepted with both fields trimmed and its 'T' not behind the date
C11_Witness ==
    /\ pc = "Parsed" /\ err = NoError
    /\ Len(lastEntry.Cookie) + Len(lastEntry.Timestamp) + 1 < Len(input[1])
    /\ ~HasSeparatorT(lastEntry.Timestamp)

\* C12: two runs on identical input lines and identical target date yield
\* identical outcomes, the same error or the same list in the same order,
\* whatever order the tally map is iterated in by either run.
C12_Determinism ==
    (run = 2 /\ Done)
        => /\ cookies = prev.cookies
           /\ err = prev.err

\* a second run that returned a tie after iterating the map out of order
C12_Witness ==
    /\ run = 2 /\ pc = "Success"
    /\ Len(cookies.list) >= 2
    /\ mostActiveCookies.list # cookies.list
    /\ cookies = prev.cookies

\* the records consumed so far that are dated on the target, by line number
TalliedLines == {i \in 2..scanPos : OnTarget(i)}

Phase == IF pc = "Selecting" THEN "Finalizing" ELSE pc

PhaseRank(p) ==
    CASE p = "Start" -> 1
      [] p = "ValidatingDate" -> 2
      [] p = "ReadingHeader" -> 3
      [] p = "ConsumingRecords" -> 4
      [] p = "Finalizing" -> 5
      [] p = "Success" -> 6
      [] p = "Failure" -> 6

\* What is left of a run, as a natural number: phases to go, lines to scan,
\* cookies to range over.
Variant ==
    (2 * Len(input) + 3) * (6 - PhaseRank(Phase))
    + (Len(input) - scanPos)
    + (IF pc = "Finalizing" THEN Len(input) + 1 ELSE Cardinality(remaining))

\* one step of a run, as the phases see it
PhaseStep ==
    /\ Variant' < Variant /\ Variant' >= 0
    /\ PhaseRank(Phase') >= PhaseRank(Phase)
    /\ PhaseRank(Phase') <= PhaseRank(Phase) + 1 \/ Phase' = "Failure"
    /\ Done => UNCHANGED vars
    /\ (Phase = "ConsumingRecords" /\ Phase' = "Finalizing") =>
          \/ scanPos' = scanPos /\ scanPos = Len(input) /\ errAt = 0
          \/ scanPos' = scanPos + 1 /\ PastTarget(scanPos')
    /\ (Phase = "ConsumingRecords" /\ scanPos < Len(input)
           /\ ~IsBlank(scanPos + 1) /\ Malformed(scanPos + 1)) =>
          Phase' = "Failure" /\ err'.kind = "FormatError"
    /\ (Phase = "ConsumingRecords" /\ scanPos = Len(input) /\ errAt # 0) =>
          Phase' = "Failure" /\ err'.kind = "IOError"

\* C14: every run moves through the phases only in the order Start,
\* ValidatingDate, ReadingHeader, ConsumingRecords, Finalizing and ends in
\* Success or in Failure (every step brings it nearer: runs are finite); ConsumingRecords leaves to Finalizing only on EOF or
\* on the early stop and leaves directly to Failure on a parse or an I/O
\* error; no earlier phase is entered again and nothing changes once the
\* run is in Success or Failure.
C14_PhaseOrder == [][PhaseStep]_vars

\* a run that left ConsumingRecords by the early stop and ended in Success
C14_Witness ==
    /\ pc = "Success"
    /\ stopped
    /\ scanPos < Len(input)
    /\ errAt = 0

\* the lines after the header, up to line n, that are not blank
NonBlankUpTo(n) == {i \in 2..n : ~IsBlank(i)}

\* one step of a run, as the line source sees it
LazyStep ==
    /\ scanPos' \in {scanPos, scanPos + 1}
    /\ lineNum' = scanPos'
    /\ scanPos' = scanPos + 1 =>
          /\ pc \in {"ReadingHeader", "ConsumingRecords"}
          /\ calls = Cardinality(NonBlankUpTo(scanPos))
          /\ counted = {i \in 2..scanPos : OnTarget(i)}
          /\ calls' = Cardinality({i \in NonBlankUpTo(scanPos') : ~Malformed(i)})
    /\ stopped => scanPos' = scanPos
    /\ Done => scanPos' = scanPos
    /\ stopped' => FirstStop(scanPos') /\ PastTarget(scanPos')
    /\ err'.kind = "HeaderError" => scanPos' = 1
    /\ err'.kind = "FormatError" => FirstStop(scanPos') /\ Malformed(scanPos')

\* C15: lines are requested one at a time and in input order, line n+1 only
\* after line n has been parsed and folded into the tally; once the record
\* past the target has been seen, or the header or a line has been rejected,
\* no later line of the input is read.
C15_LazyInOrder == [][LazyStep]_vars

\* the run is over after the early stop, and the line left unread is one
\* that would have been tallied
C15_Witness ==
    /\ Done
    /\ stopped
    /\ counted # {}
    /\ scanPos + 1 <= Len(input)
    /\ OnTarget(scanPos + 1)

\* C16: lines after the header that are empty after the trim are skipped:
\* they reach neither parseLine nor the processor and are not counted as
\* records, and a file with blank lines put in or taken out anywhere below
\* its header gives the same result list and the same kind of error.
C16_BlankLinesSkipped ==
    /\ pc \notin {"Start", "ValidatingDate", "ReadingHeader"} =>
          /\ parsed = Cardinality({i \in NonBlankUpTo(scanPos) : ~Malformed(i)})
          /\ calls = parsed
          /\ entriesProcessed = Cardinality({i \in NonBlankUpTo(scanPos) : ~Malformed(i) /\ ~PastTarget(i)})
          /\ lineNum = scanPos
    /\ (run = 2 /\ Done) =>
          /\ cookies = prev.cookies
          /\ err.kind = prev.err.kind

\* the second run tallied records on both sides of blank lines the first
\* run did not have, and returned the same winners
C16_Witness ==
    /\ run = 2
    /\ pc = "Success"
    /\ Len(input) > prev.lines
    /\ \E i \in 2..(scanPos - 1) : IsBlank(i) /\ OnTarget(i - 1) /\ OnTarget(i + 1)
    /\ cookies = prev.cookies
    /\ cookies.list # <<>>

\* the first line is accepted, or there is none
HeaderPassed == input = <<>> \/ HeaderMatches(input[1])

\* The line source reports a read failure to the run: its Scan returns false
\* with the error set behind the last line, or the loop is left at the record
\* past the target with the error already set.
ReadFailureReported ==
    /\ errAt # 0
    /\ HeaderPassed
    /\ \/ \A i \in DataIdx : ~FirstStop(i)
       \/ \E i \in DataIdx : FirstStop(i) /\ PastTarget(i) /\ errAt <= i

FirstPast(i) == i \in DataIdx /\ PastTarget(i) /\ \A j \in 2..(i - 1) : ~PastTarget(j)

OutOfOrder == \E i, j \in DataIdx : i < j /\ PastTarget(i) /\ OnTarget(j)

CountBefore(c, k) == Cardinality({i \in 2..(k - 1) : OnTarget(i) /\ Rec(i).entry.Cookie = c})
CookiesBefore(k) == {Rec(i).entry.Cookie : i \in {j \in 2..(k - 1) : OnTarget(j)}}
WinnersBefore(k) ==
    {c \in CookiesBefore(k) : \A d \in CookiesBefore(k) : CountBefore(d, k) <= CountBefore(c, k)}

\* C18: out-of-order input is not detected: for a well-formed input in which
\* a record dated after the target precedes records of the target date, the
\* run reports no error and returns the winners among the records before the
\* first record dated after the target; the later records are not counted.
C18_OutOfOrderSilent ==
    (Done /\ ValidRun /\ errAt = 0 /\ WellFormedInput /\ OutOfOrder) =>
        /\ pc = "Success"
        /\ err = NoError
        /\ \A k \in DataIdx : FirstPast(k) =>
              /\ Range(cookies.list) = WinnersBefore(k)
              /\ counted \subseteq 2..(k - 1)

\* C19: for an input with no line at all and no read error StreamFile skips
\* the header check and fails with EmptyInputError, not with HeaderError;
\* HeaderError comes only from a first line that exists and does not match.
C19_NoLinesIsEmptyInput ==
    /\ (Done /\ ValidRun /\ input = <<>> /\ errAt = 0) =>
          /\ pc = "Failure"
          /\ err.kind = "EmptyInputError"
          /\ cookies = NilSlice
    /\ err.kind = "HeaderError" => Len(input) >= 1 /\ ~HeaderMatches(input[1])

\* StreamFile ran on a file without lines
C19_Witness ==
    /\ Done
    /\ ValidRun
    /\ streamed
    /\ input = <<>>
    /\ errAt = 0
    /\ err.kind = "EmptyInputError"

\* C20: driven by StreamFile, the processor never returns "timestamp too
\* short": every record handed to it has a trimmed timestamp of at least 10
\* characters, so it returns nil or ErrPastTargetDate only and the run never
\* fails with "processing error at line".
C20_TooShortUnreachable ==
    /\ err.kind # "ProcessingError"
    /\ lastEntry # NoEntry =>
          /\ Len(lastEntry.Timestamp) >= 10
          /\ processLogEntry(targetDate, EmptyCounts, lastEntry).err \in {"nil", "ErrPastTargetDate"}

\* a line with a timestamp of fewer than 10 characters, 'T' among them, was
\* turned away by parseLine after a record had gone through the processor
C20_Witness ==
    /\ calls > 0
    /\ err.kind = "FormatError"
    /\ err.reason = "invalid timestamp format"
    /\ input[scanPos] = LineShortT

====
